---------------------------- MODULE Spec2Model ----------------------------
(***************************************************************************)
(* A model of defog (src/src/defog.c): dark-channel-prior image defogging. *)
(*                                                                         *)
(* An image is a record [w, h, bg, marks]: a w x h grid whose pixel at     *)
(* (x, y) is marks[<<x, y>>] where that is defined and bg elsewhere.  A    *)
(* colour pixel is a CvScalar <<b, g, r>> (channel c of the code is        *)
(* component c + 1 here); a grayscale pixel is one number.                 *)
(*                                                                         *)
(* A double is modelled bit for bit, [k |-> "fin", s, m, e] being the      *)
(* double s * m * 2^e with a mantissa m of 53 bits, and every operation on *)
(* doubles rounds its exact result to the nearest double, to the even one  *)
(* of two.  The results of a division by zero are the records Inf(s) and   *)
(* NaN.  The images main creates are 8-bit (img->depth, lines 243-244): a  *)
(* pixel of them holds what cvSet2D makes of the double it is handed, the  *)
(* nearest integer cut to 0 .. 255.                                        *)
(***************************************************************************)
EXTENDS Integers, Sequences, FiniteSets, TLC

VARIABLES
    img,              \* the BGR image read by main (never written)
    gray,             \* its grayscale version (never written)
    x1, y1, x2, y2,   \* the area handed to the function under analysis
    pc,               \* where the program is
    top_num,          \* find_light_intensity: size of the candidate array
    top,              \* find_light_intensity: the candidate array top[0..]
    dark_channel,     \* the dark channel of the area [x1,x2) x [y1,y2)
    sx, sy,           \* find_light_intensity: scan position of lines 89-90
    seen,             \* history: the (val, intensity) pairs scanned so far
    light_intensity,  \* main: the value find_light_intensity returned
    x, y,             \* main: position of the per-pixel loop, lines 247-248
    win,              \* main: the window of the pixel processed last
    map,              \* main: the pixels of the transmission map
    out,              \* main: the pixels of the output image
    writes,           \* history: cvSet2D calls per location, <<map, out>>
    last,             \* history: t, fmax(t, 0.54) and the scalars handed to
                      \* cvSet2D last
    undef8            \* what this build was seen to store for a NaN or -inf

vars == <<img, gray, x1, y1, x2, y2, pc, top_num, top, dark_channel, sx, sy,
          seen, light_intensity, x, y, win, map, out, writes, last, undef8>>

---------------------------------------------------------------------------
(* Program constants *)

\* #define MAP_WIDTH 20
MAP_WIDTH == 20

\* the number of channels scalar_min is called with, and img->nChannels
NumChannels == 3

\* the 0.001 of line 76, as the fraction 1 / TopFractionDen
TopFractionDen == 1000

\* the 0.54 of line 271, as the fraction TMinNum / TMinDen
TMinNum == 54
TMinDen == 100

\* the 255.0 of line 263
MapScale == 255

---------------------------------------------------------------------------
(* Images *)

\* cvGet2D(img, y, x): the scalar at row y, column x
cvGet2D(image, py, px) ==
    IF <<px, py>> \in DOMAIN image.marks THEN image.marks[<<px, py>>]
    ELSE image.bg

\* The pixel positions of the area [a1,a2) x [b1,b2)
Area(a1, b1, a2, b2) == (a1 .. a2 - 1) \X (b1 .. b2 - 1)

---------------------------------------------------------------------------
(* scalar_min, lines 43-61 *)

RECURSIVE ScalarMinLoopLastTie(_, _, _, _, _)
\* ScalarMinLoop with <= for <: of equal values the last one wins
ScalarMinLoopLastTie(sc, num_vals, i, min, min_in) ==
    IF i >= num_vals THEN min_in
    ELSE IF sc[i + 1] <= min
         THEN ScalarMinLoopLastTie(sc, num_vals, i + 1, sc[i + 1], i)
         ELSE ScalarMinLoopLastTie(sc, num_vals, i + 1, min, min_in)

RECURSIVE ScalarMinLoop(_, _, _, _, _)
\* the for loop of lines 52-58, from index i with the minimum so far
ScalarMinLoop(sc, num_vals, i, min, min_in) ==
    IF i >= num_vals THEN min_in
    ELSE IF sc[i + 1] < min
         THEN ScalarMinLoop(sc, num_vals, i + 1, sc[i + 1], i)
         ELSE ScalarMinLoop(sc, num_vals, i + 1, min, min_in)

scalar_min(sc, num_vals) == ScalarMinLoop(sc, num_vals, 1, sc[1], 0)

---------------------------------------------------------------------------
(* find_dark_channel, lines 141-165.  The loop state is the record         *)
(* [min_pixel, min] of lines 143-146.                                      *)

\* the values the loop state takes
DarkStates == [min_pixel : Seq(Nat), min : 0 .. NumChannels - 1]

RECURSIVE DarkRowShort(_, _, _, _)
\* DarkRow with x < x2 - 1 for x < x2: the last column is not searched
DarkRowShort(image, px, py, a2) ==
    [st \in DarkStates |->
        IF px >= a2 - 1 THEN st
        ELSE LET curr_pixel == cvGet2D(image, py, px)
                 curr_min   == scalar_min(curr_pixel, NumChannels)
             IN  IF curr_pixel[curr_min + 1] < st.min_pixel[st.min + 1]
                 THEN DarkRowShort(image, px + 1, py, a2)[
                          [min_pixel |-> curr_pixel, min |-> curr_min]]
                 ELSE DarkRowShort(image, px + 1, py, a2)[st]]

RECURSIVE DarkRow(_, _, _, _)
\* the inner loop of line 150, from column px, as a function of the loop
\* state it starts in: lines 152-160 for each pixel
DarkRow(image, px, py, a2) ==
    [st \in DarkStates |->
        IF px >= a2 THEN st
        ELSE LET curr_pixel == cvGet2D(image, py, px)
                 curr_min   == scalar_min(curr_pixel, NumChannels)
             IN  IF curr_pixel[curr_min + 1] < st.min_pixel[st.min + 1]
                 THEN DarkRow(image, px + 1, py, a2)[
                          [min_pixel |-> curr_pixel, min |-> curr_min]]
                 ELSE DarkRow(image, px + 1, py, a2)[st]]

RECURSIVE DarkRows(_, _, _, _, _)
\* the outer loop of line 149, from row py, as a function of the loop state
DarkRows(image, a1, py, a2, b2) ==
    [st \in DarkStates |->
        IF py >= b2 THEN st
        ELSE DarkRows(image, a1, py + 1, a2, b2)[DarkRow(image, a1, py, a2)[st]]]

find_dark_channel(image, a1, b1, a2, b2) ==
    LET min_pixel == cvGet2D(image, b1, a1)
        min       == scalar_min(min_pixel, NumChannels)
    IN  DarkRows(image, a1, b1, a2, b2)[[min_pixel |-> min_pixel, min |-> min]].min

---------------------------------------------------------------------------
(* find_light_intensity, lines 74-129 *)

\* line 76: int top_num = (x2 - x1) * (y2 - y1) * 0.001, truncated
TopNum(a1, b1, a2, b2) == ((a2 - a1) * (b2 - b1)) \div TopFractionDen

\* lines 79-82: an unset slot
UnsetSlot == [x |-> -1, y |-> -1, val |-> -1, intensity |-> -1]

\* lines 77-83: top[0 .. n-1], kept here as the sequence top[1 .. n]
InitTop(n) == [i \in 1 .. n |-> UnsetSlot]

RECURSIVE PlaceLoopNoTieBreak(_, _, _, _)
\* PlaceLoop without the tiebreaker: only a smaller val is replaced
PlaceLoopNoTieBreak(t, n, i, cand) ==
    IF i >= n THEN t
    ELSE IF t[i + 1].val < cand.val
         THEN [t EXCEPT ![i + 1] = cand]
         ELSE PlaceLoopNoTieBreak(t, n, i + 1, cand)

RECURSIVE PlaceLoopTieFlipped(_, _, _, _)
\* PlaceLoop with the tiebreaker turned round: of equal vals the smaller
\* intensity replaces the larger
PlaceLoopTieFlipped(t, n, i, cand) ==
    IF i >= n THEN t
    ELSE IF \/ t[i + 1].val < cand.val
            \/ (t[i + 1].val = cand.val /\ t[i + 1].intensity > cand.intensity)
         THEN [t EXCEPT ![i + 1] = cand]
         ELSE PlaceLoopTieFlipped(t, n, i + 1, cand)

RECURSIVE PlaceLoop(_, _, _, _)
\* lines 96-108: first fit, from slot i (0-based), of the candidate cand
PlaceLoop(t, n, i, cand) ==
    IF i >= n THEN t
    ELSE IF \/ t[i + 1].val < cand.val
            \/ (t[i + 1].val = cand.val /\ t[i + 1].intensity < cand.intensity)
         THEN [t EXCEPT ![i + 1] = cand]
         ELSE PlaceLoop(t, n, i + 1, cand)

\* lines 91-108: the body of the scan for the pixel at (px, py)
Place(t, n, image, grayimage, dc, px, py) ==
    LET val       == cvGet2D(image, py, px)[dc + 1]
        intensity == cvGet2D(grayimage, py, px)
    IN  PlaceLoop(t, n, 0,
                  [x |-> px, y |-> py, val |-> val, intensity |-> intensity])

RECURSIVE MaxLoop(_, _, _, _)
\* lines 115-119: the largest intensity of the slots, from slot i (0-based)
MaxLoop(t, n, i, max_intensity) ==
    IF i >= n THEN max_intensity
    ELSE IF t[i + 1].intensity > max_intensity
         THEN MaxLoop(t, n, i + 1, t[i + 1].intensity)
         ELSE MaxLoop(t, n, i + 1, max_intensity)

\* RetVal without the comparison of line 116: the last slot is returned
RetValLast(t, n) == IF n >= 1 THEN t[n].intensity ELSE -1

\* lines 113-122: ret_val
RetVal(t, n) == MaxLoop(t, n, 0, -1)

---------------------------------------------------------------------------
(* The arithmetic of main's loop body, lines 251-271 *)

Abs(a) == IF a < 0 THEN -a ELSE a

(* A C double is modelled bit for bit: sign s, mantissa m of 53 bits and
   exponent e, the value being s * m * 2^e.  A mantissa is a natural number
   written as a sequence of 15-bit limbs, the least significant first, without
   leading zero limbs; so is every natural number of the arithmetic below,
   whose operations are functions of such sequences. *)
LimbBits == 15
Base == 32768
MantBits == 53

\* the natural numbers, as limb sequences
Big == Seq(Nat)

\* the doubles: finite, NaN, or an infinity
Double == [k : {"fin", "nan", "inf"}, s : {-1, 1}, m : Big, e : Int]

Limb(a, i) == IF i <= Len(a) THEN a[i] ELSE 0

\* a without its leading zero limbs
Trim[a \in Big] ==
    IF a = <<>> THEN a
    ELSE IF a[Len(a)] = 0 THEN Trim[SubSeq(a, 1, Len(a) - 1)] ELSE a

\* -1, 0, 1 as a < b, a = b, a > b, for a and b of one length, from limb i down
BigCmpFrom[a \in Big, b \in Big, i \in Nat] ==
    IF i = 0 THEN 0
    ELSE IF a[i] < b[i] THEN -1
    ELSE IF a[i] > b[i] THEN 1
    ELSE BigCmpFrom[a, b, i - 1]

BigCmp[a \in Big, b \in Big] ==
    IF Len(a) < Len(b) THEN -1
    ELSE IF Len(a) > Len(b) THEN 1
    ELSE BigCmpFrom[a, b, Len(a)]

BigAddFrom[a \in Big, b \in Big, i \in Nat, carry \in Nat] ==
    IF i > Len(a) /\ i > Len(b)
    THEN IF carry = 0 THEN <<>> ELSE <<carry>>
    ELSE <<(Limb(a, i) + Limb(b, i) + carry) % Base>>
         \o BigAddFrom[a, b, i + 1, (Limb(a, i) + Limb(b, i) + carry) \div Base]

\* a + b
BigAdd[a \in Big, b \in Big] == BigAddFrom[a, b, 1, 0]

BigSubFrom[a \in Big, b \in Big, i \in Nat, borrow \in Nat] ==
    IF i > Len(a) THEN <<>>
    ELSE <<(a[i] - Limb(b, i) - borrow) % Base>>
         \o BigSubFrom[a, b, i + 1, IF a[i] - Limb(b, i) - borrow < 0 THEN 1 ELSE 0]

\* a - b, for a >= b
BigSub[a \in Big, b \in Big] == Trim[BigSubFrom[a, b, 1, 0]]

BigMulSmallFrom[a \in Big, k \in Nat, i \in Nat, carry \in Nat] ==
    IF i > Len(a)
    THEN IF carry = 0 THEN <<>> ELSE <<carry>>
    ELSE <<(a[i] * k + carry) % Base>>
         \o BigMulSmallFrom[a, k, i + 1, (a[i] * k + carry) \div Base]

\* a * k, for k <= Base
BigMulSmall[a \in Big, k \in Nat] ==
    IF k = 0 THEN <<>> ELSE BigMulSmallFrom[a, k, 1, 0]

\* a * b
BigMul[a \in Big, b \in Big] ==
    IF b = <<>> \/ a = <<>> THEN <<>>
    ELSE BigAdd[BigMulSmall[a, Head(b)], Trim[<<0>> \o BigMul[a, Tail(b)]]]

BigDivSmallFrom[a \in Big, k \in Nat, i \in Nat, r \in Nat] ==
    IF i = 0 THEN <<>>
    ELSE BigDivSmallFrom[a, k, i - 1, (r * Base + a[i]) % k]
         \o <<(r * Base + a[i]) \div k>>

\* a \div k, for 0 < k <= Base
BigDivSmall[a \in Big, k \in Nat] == Trim[BigDivSmallFrom[a, k, Len(a), 0]]

\* a * 2^n
BigShl[a \in Big, n \in Nat] ==
    IF a = <<>> THEN a
    ELSE [i \in 1 .. n \div LimbBits |-> 0] \o BigMulSmall[a, 2 ^ (n % LimbBits)]

\* a \div 2^n
BigShr[a \in Big, n \in Nat] ==
    IF n \div LimbBits >= Len(a) THEN <<>>
    ELSE BigDivSmall[SubSeq(a, n \div LimbBits + 1, Len(a)), 2 ^ (n % LimbBits)]

\* a % 2^n
BigLow[a \in Big, n \in Nat] == BigSub[a, BigShl[BigShr[a, n], n]]

\* the number of bits of k
BitsOf[k \in Nat] == IF k = 0 THEN 0 ELSE 1 + BitsOf[k \div 2]

\* the number of bits of a
BitLen[a \in Big] ==
    IF a = <<>> THEN 0 ELSE LimbBits * (Len(a) - 1) + BitsOf[a[Len(a)]]

\* the natural number k < Base^3 as a limb sequence
BigOfInt[k \in Nat] ==
    Trim[<<k % Base, (k \div Base) % Base, k \div (Base * Base)>>]

\* the limb sequence a < Base^2 as a number
BigToInt[a \in Big] == Limb(a, 1) + Base * Limb(a, 2)

\* one digit of the long division: the largest q with q * b <= r, from an
\* estimate q that is not below it
DigitDown[r \in Big, b \in Big, q \in Nat] ==
    IF BigCmp[BigMulSmall[b, q], r] > 0 THEN DigitDown[r, b, q - 1] ELSE q

\* the estimate is made of the leading limbs of r and of b, the leading limb of
\* b being Base / 2 at least
Digit[r \in Big, b \in Big] ==
    IF BigCmp[r, b] < 0 THEN 0
    ELSE LET est == (Limb(r, Len(b) + 1) * Base + r[Len(b)]) \div b[Len(b)]
         IN  DigitDown[r, b, IF est > Base - 1 THEN Base - 1 ELSE est]

\* the long division of a by b from limb i of a down, q and r being the
\* quotient and the remainder of the limbs above i: the quotient, and whether
\* a remainder is left
LongDiv[a \in Big, b \in Big, i \in Nat, q \in Big, r \in Big] ==
    IF i = 0 THEN [q |-> Trim[q], sticky |-> r # <<>>]
    ELSE LET r1 == Trim[<<a[i]>> \o r]
             d == Digit[r1, b]
         IN  LongDiv[a, b, i - 1, <<d>> \o q, BigSub[r1, BigMulSmall[b, d]]]

\* a \div b and whether b does not divide a, for b # 0: both are shifted for
\* the leading limb of b to have its top bit set
BigDivMod[a \in Big, b \in Big] ==
    LongDiv[BigShl[a, LimbBits - BitsOf[b[Len(b)]]],
            BigShl[b, LimbBits - BitsOf[b[Len(b)]]],
            Len(BigShl[a, LimbBits - BitsOf[b[Len(b)]]]), <<>>, <<>>]

\* what 0.0 / 0.0 gives
NaN == [k |-> "nan", s |-> 1, m |-> <<>>, e |-> 0]

\* the infinity of sign s, what v / 0.0 gives for v # 0
Inf(s) == [k |-> "inf", s |-> s, m |-> <<>>, e |-> 0]

\* the double 0.0; the sign of a zero is not kept, as main divides by none
\* but the light intensity, whose zero is +0.0, and stores both zeros as 0
Zero == [k |-> "fin", s |-> 1, m |-> <<>>, e |-> 0]

\* whether q, the exact value cut below its last bit, is rounded up: low is
\* what was cut and half is half a unit of q's last bit; the sticky bit tells
\* of a rest below low
RoundUp[q \in Big, low \in Big, half \in Big, sticky \in BOOLEAN] ==
    \/ BigCmp[low, half] > 0
    \/ BigCmp[low, half] = 0 /\ (sticky \/ Limb(q, 1) % 2 = 1)

\* the double of a mantissa that rounding up may have made 2^53
Renorm[s \in {-1, 1}, m \in Big, e \in Int] ==
    IF BitLen[m] > MantBits
    THEN [k |-> "fin", s |-> s, m |-> BigShr[m, 1], e |-> e + 1]
    ELSE [k |-> "fin", s |-> s, m |-> m, e |-> e]

\* the double nearest to s * (m + f) * 2^e, the even one of two, where
\* 0 <= f < 1 and f # 0 exactly when sticky
RoundToDouble[s \in {-1, 1}, m \in Big, e \in Int, sticky \in BOOLEAN] ==
    IF m = <<>> THEN Zero
    ELSE IF BitLen[m] <= MantBits
    THEN [k |-> "fin", s |-> s, m |-> BigShl[m, MantBits - BitLen[m]],
          e |-> e - (MantBits - BitLen[m])]
    ELSE LET n == BitLen[m] - MantBits
             q == BigShr[m, n]
         IN  Renorm[s,
                    IF RoundUp[q, BigLow[m, n], BigShl[<<1>>, n - 1], sticky]
                    THEN BigAdd[q, <<1>>] ELSE q,
                    e + n]

\* the conversion of an int to double
IntToDouble[i \in Int] ==
    RoundToDouble[IF i < 0 THEN -1 ELSE 1, BigOfInt[IF i < 0 THEN -i ELSE i], 0, FALSE]

\* -a
Neg(a) == [a EXCEPT !.s = -a.s]

\* the exact sum s * m * 2^e of two finite doubles, m of any length
ExactSum[a \in Double, b \in Double] ==
    IF a.m = <<>> THEN [s |-> b.s, m |-> b.m, e |-> b.e]
    ELSE IF b.m = <<>> THEN [s |-> a.s, m |-> a.m, e |-> a.e]
    ELSE LET e == IF a.e < b.e THEN a.e ELSE b.e
             ma == BigShl[a.m, a.e - e]
             mb == BigShl[b.m, b.e - e]
         IN  IF a.s = b.s THEN [s |-> a.s, m |-> BigAdd[ma, mb], e |-> e]
             ELSE IF BigCmp[ma, mb] >= 0 THEN [s |-> a.s, m |-> BigSub[ma, mb], e |-> e]
             ELSE [s |-> b.s, m |-> BigSub[mb, ma], e |-> e]

\* an exact sum rounded to a double
RoundSum[r \in [s : {-1, 1}, m : Big, e : Int]] ==
    RoundToDouble[r.s, r.m, r.e, FALSE]

\* a + b in double
DAdd[a \in Double, b \in Double] ==
    IF a.k = "nan" \/ b.k = "nan" THEN NaN
    ELSE IF a.k = "inf" THEN (IF b.k = "inf" /\ b.s # a.s THEN NaN ELSE a)
    ELSE IF b.k = "inf" THEN b
    ELSE RoundSum[ExactSum[a, b]]

\* a - b in double
DSub[a \in Double, b \in Double] == DAdd[a, Neg(b)]

\* a * b in double
DMul[a \in Double, b \in Double] ==
    IF a.k = "nan" \/ b.k = "nan" THEN NaN
    ELSE IF a.k = "inf" \/ b.k = "inf"
    THEN (IF (a.k = "fin" /\ a.m = <<>>) \/ (b.k = "fin" /\ b.m = <<>>)
          THEN NaN ELSE Inf(a.s * b.s))
    ELSE RoundToDouble[a.s * b.s, BigMul[a.m, b.m], a.e + b.e, FALSE]

\* the bits the dividend is shifted by for the quotient of two mantissas to
\* have more than 53 + 1 bits
QuotBits == 56

\* a quotient with its sticky bit rounded to a double
RoundQuot[s \in {-1, 1}, e \in Int, res \in [q : Big, sticky : BOOLEAN]] ==
    RoundToDouble[s, res.q, e, res.sticky]

\* a / b in double
DDiv[a \in Double, b \in Double] ==
    IF a.k = "nan" \/ b.k = "nan" THEN NaN
    ELSE IF a.k = "inf" THEN (IF b.k = "inf" THEN NaN ELSE Inf(a.s * b.s))
    ELSE IF b.k = "inf" THEN Zero
    ELSE IF b.m = <<>> THEN (IF a.m = <<>> THEN NaN ELSE Inf(a.s * b.s))
    ELSE IF a.m = <<>> THEN Zero
    ELSE RoundQuot[a.s * b.s, a.e - b.e - QuotBits,
                   BigDivMod[BigShl[a.m, QuotBits], b.m]]

\* the sign of an exact sum: -1, 0 or 1
SignOf[r \in [s : {-1, 1}, m : Big, e : Int]] == IF r.m = <<>> THEN 0 ELSE r.s

\* a < b as C compares doubles
DLess[a \in Double, b \in Double] ==
    IF a.k = "nan" \/ b.k = "nan" THEN FALSE
    ELSE IF a.k = "inf" THEN a.s = -1 /\ ~(b.k = "inf" /\ b.s = -1)
    ELSE IF b.k = "inf" THEN b.s = 1
    ELSE SignOf[ExactSum[a, Neg(b)]] = -1

\* a double that nothing was assigned to yet
NoDouble == [k |-> "unset", s |-> 1, m |-> <<>>, e |-> 0]

\* the content of a pixel of a created image that nothing was stored in yet
\* (cvCreateImage does not clear it, and main never reads it)
NotWritten == -1

\* line 251 / 252: the lower bound of the window around coordinate c
WinLow(c) == IF c - (MAP_WIDTH \div 2) > 0 THEN c - (MAP_WIDTH \div 2) ELSE 0

\* WinHigh without the clamp to the image size
WinHighUnclamped(c, size) == c + (MAP_WIDTH \div 2)

\* line 253 / 254: the upper bound of the window around c, for the size given
WinHigh(c, size) ==
    IF c + (MAP_WIDTH \div 2) <= size THEN c + (MAP_WIDTH \div 2) ELSE size

\* line 260: t = 1 - (v / light_intensity), of the pixel value v and the
\* integer-valued double light_intensity
Transmission(v, li) ==
    DSub[IntToDouble[1], DDiv[IntToDouble[v], IntToDouble[li]]]

\* the double constant 0.54 of line 271: the double nearest to 54 / 100
TMin == DDiv[IntToDouble[TMinNum], IntToDouble[TMinDen]]

\* FMaxTMin with fmin for fmax
FMinTMin(t) == IF t.k = "nan" THEN TMin ELSE IF DLess[t, TMin] THEN t ELSE TMin

\* fmax(t, 0.54): the other argument when one is a NaN
FMaxTMin(t) == IF t.k = "nan" THEN TMin ELSE IF DLess[t, TMin] THEN TMin ELSE t

\* Recover without the light intensity added back
RecoverNoLight(value, li, t) ==
    DDiv[DSub[IntToDouble[value], IntToDouble[li]], FMaxTMin(t)]

\* line 271: (value - light_intensity) / fmax(t, 0.54) + light_intensity
Recover(value, li, t) ==
    DAdd[DDiv[DSub[IntToDouble[value], IntToDouble[li]], FMaxTMin(t)],
         IntToDouble[li]]

\* line 263: t * 255.0
MapValue(t) == DMul[t, IntToDouble[MapScale]]

\* cvRound of a finite double below 2^30 in size: the nearest integer, the
\* even one of two
cvRound(v) ==
    IF v.m = <<>> \/ -v.e > MantBits THEN 0
    ELSE v.s * (BigToInt[BigShr[v.m, -v.e]]
                + IF RoundUp[BigShr[v.m, -v.e], BigLow[v.m, -v.e],
                             BigShl[<<1>>, -v.e - 1], FALSE]
                  THEN 1 ELSE 0)

\* the cast of an int to an 8-bit pixel: cut to 0 .. 255
Cast8U(i) == IF i < 0 THEN 0 ELSE IF i > 255 THEN 255 ELSE i

\* lines 263, 275: what cvSet2D stores in an 8-bit image for the double v;
\* the conversion of a NaN or an infinity to int is undefined, and ub is
\* what this build makes of it
Store8U(v, ub) == IF v.k = "fin" THEN Cast8U(cvRound(v)) ELSE ub

\* line 237: cvCvtColor(img, gray, CV_RGB2GRAY) on one 8-bit pixel; the library
\* reads channel 0 as red: (4899 R + 9617 G + 1868 B + 2^13) >> 14
GrayOfPixel(p) == (4899 * p[1] + 9617 * p[2] + 1868 * p[3] + 8192) \div 16384

\* line 237 on the whole image
cvCvtColor(image) ==
    [w |-> image.w, h |-> image.h, bg |-> GrayOfPixel(image.bg),
     marks |-> [p \in DOMAIN image.marks |-> GrayOfPixel(image.marks[p])]]

---------------------------------------------------------------------------
(* Bounds of the inputs *)

\* at most this many pixels of a small image differ from its background
DarkMarks == 3

\* the sizes <<w, h>> of the small images find_dark_channel is checked on
DarkSizes == {<<2, 2>>, <<3, 2>>}

\* the colours of the small images: the minimum at each index, ties inside a
\* pixel, equal minima in different pixels, and a pixel of equal channels
DarkPalette == {<<0, 1, 1>>, <<1, 0, 0>>, <<2, 2, 1>>, <<1, 1, 1>>}

\* the image find_light_intensity is checked on has LightW columns and
\* LightH rows; the area starts at column 0 or LightX1 and at row 0 or
\* LightY1 and ends with the image, so that top_num is 2, 1, 1 or 0
LightW == 50
LightH == 40
LightX1 == 1
LightY1 == 20

\* at most this many pixels of that image differ from its background
LightMarks == 2

\* where they may be: the first two pixels of the smallest area and the last
LightMarkPositions ==
    {<<LightX1, LightY1>>, <<LightX1 + 1, LightY1>>, <<LightW - 1, LightH - 1>>}

\* the backgrounds and the marked pixels: a colour and a grayscale intensity
LightBackgrounds == {[c |-> <<1, 1, 1>>, i |-> 1], [c |-> <<3, 1, 3>>, i |-> 2]}
LightPixels == {[c |-> <<2, 2, 2>>, i |-> 5], [c |-> <<3, 2, 3>>, i |-> 1],
                [c |-> <<4, 0, 4>>, i |-> 6], [c |-> <<5, 4, 5>>, i |-> 9]}

\* the images main is run on: every small image of these sizes and colours,
MainSizes == {<<1, 1>>, <<2, 1>>, <<1, 2>>, <<2, 2>>}
MainPalette == {<<0, 0, 0>>, <<100, 100, 100>>, <<255, 0, 0>>}

\* and images of BigW x BigH pixels, a uniform gray alone, with a white square
\* of 3 x 3 pixels at one of PatchAt, or with one pixel of BigPixels at one of
\* BigPixelAt
BigW == 40
BigH == 25
BigGrays == {0, 10, 100}
PatchAt == {<<1, 0>>}
BigPixelAt == {<<2, 0>>}
BigPixels == {<<255, 200, 255>>, <<1, 0, 0>>, <<7, 7, 7>>, <<5, 5, 5>>}

\* and, for termination, images of these sizes
MidSizes == {<<12, 11>>, <<23, 3>>}

---------------------------------------------------------------------------
(* Initial states *)

NoWindow == [px |-> -1, py |-> -1, x_low |-> 0, y_low |-> 0,
             x_high |-> 0, y_high |-> 0]

\* before the loop: no t, no scalar
NoScalars == [t |-> NoDouble, d |-> NoDouble, map |-> NoDouble,
              out |-> [i \in 1 .. NumChannels |-> NoDouble]]

\* the pixels a build may store for a double that is no int: the cut of
\* INT_MIN or of INT_MAX
UndefBytes == {0, 255}

\* undef8 before the program has stored such a double
NotObserved == -1

\* what the store of the double v may put for a NaN or an infinity: nothing
\* new for a finite v, what the build did before, or either pixel the first
\* time
Builds(v, seen8) ==
    IF v.k = "fin" \/ seen8 # NotObserved THEN {seen8} ELSE UndefBytes

\* The program about to work on the area [a1,a2) x [b1,b2) of image
InitWith(image, grayimage, a1, b1, a2, b2) ==
    /\ img = image
    /\ gray = grayimage
    /\ x1 = a1 /\ y1 = b1 /\ x2 = a2 /\ y2 = b2
    /\ pc = "start"
    /\ top_num = 0
    /\ top = << >>
    /\ dark_channel = 0
    /\ sx = a1 /\ sy = b1
    /\ seen = {}
    /\ light_intensity = 0
    /\ x = 0 /\ y = 0
    /\ win = NoWindow
    /\ map = << >>
    /\ out = << >>
    /\ writes = << >>
    /\ last = NoScalars
    /\ undef8 = NotObserved

\* The images of size w x h with background bg whose pixels differ from it
\* at no more than n positions of where, by a pixel of pixels
Images(w, h, bgs, where, n, pixels) ==
    { [w |-> w, h |-> h, bg |-> bg, marks |-> m] :
        bg \in bgs,
        m \in UNION { [S -> pixels] :
                        S \in {T \in SUBSET where : Cardinality(T) <= n} } }

\* find_dark_channel on any non-empty area of a small image
InitDark ==
    \E size \in DarkSizes :
      \E image \in Images(size[1], size[2], DarkPalette,
                          Area(0, 0, size[1], size[2]), DarkMarks, DarkPalette) :
        \E a1 \in 0 .. size[1] - 1, b1 \in 0 .. size[2] - 1 :
          \E a2 \in a1 + 1 .. size[1], b2 \in b1 + 1 .. size[2] :
            InitWith(image, cvCvtColor(image), a1, b1, a2, b2)

\* find_light_intensity on an image and a grayscale image chosen separately
InitLight ==
    \E pair \in Images(LightW, LightH, LightBackgrounds, LightMarkPositions,
                       LightMarks, LightPixels) :
      \E a1 \in {0, LightX1}, b1 \in {0, LightY1} :
        InitWith([pair EXCEPT !.bg = pair.bg.c,
                              !.marks = [p \in DOMAIN pair.marks |-> pair.marks[p].c]],
                 [pair EXCEPT !.bg = pair.bg.i,
                              !.marks = [p \in DOMAIN pair.marks |-> pair.marks[p].i]],
                 a1, b1, LightW, LightH)

\* a white square with its upper left corner at p
Patch(p) ==
    [q \in Area(p[1], p[2], p[1] + 3, p[2] + 3) |-> <<255, 255, 255>>]

SmallImages ==
    UNION { Images(size[1], size[2], MainPalette,
                   Area(0, 0, size[1], size[2]), size[1] * size[2],
                   MainPalette) : size \in MainSizes }

BigImages ==
    { [w |-> BigW, h |-> BigH, bg |-> <<g, g, g>>, marks |-> m] :
        g \in BigGrays,
        m \in {<< >>} \cup {Patch(p) : p \in PatchAt}
              \cup UNION { [{q} -> BigPixels] : q \in BigPixelAt } }

MainImages == SmallImages \cup BigImages

\* the images of the runs checked for termination: the small ones and, of
\* each size of MidSizes, a uniform gray and one with a white first pixel
MidImages ==
    { [w |-> size[1], h |-> size[2], bg |-> <<100, 100, 100>>, marks |-> m] :
        size \in MidSizes, m \in {<< >>, [q \in {<<0, 0>>} |-> <<255, 255, 255>>]} }

\* main on an image it has read and converted (lines 222-237)
Init ==
    \E image \in MainImages :
        InitWith(image, cvCvtColor(image), 0, 0, image.w, image.h)

\* main on a small or middle-sized image
InitFair ==
    \E image \in SmallImages \cup MidImages :
        InitWith(image, cvCvtColor(image), 0, 0, image.w, image.h)

---------------------------------------------------------------------------
(* Actions *)

\* find_dark_channel called on the area
FindDarkChannel ==
    /\ pc = "start"
    /\ dark_channel' = find_dark_channel(img, x1, y1, x2, y2)
    /\ pc' = "dark_done"
    /\ UNCHANGED <<img, gray, x1, y1, x2, y2, top_num, top, sx, sy, seen,
                   light_intensity, x, y, win, map, out, writes,
                   last, undef8>>

\* find_light_intensity, lines 76-86: the array and the dark channel
LightEnter ==
    /\ pc = "start"
    /\ top_num' = TopNum(x1, y1, x2, y2)
    /\ top' = InitTop(TopNum(x1, y1, x2, y2))
    /\ dark_channel' = find_dark_channel(img, x1, y1, x2, y2)
    /\ sx' = x1 /\ sy' = y1
    /\ pc' = "scan"
    /\ UNCHANGED <<img, gray, x1, y1, x2, y2, seen, light_intensity, x, y,
                   win, map, out, writes,
                   last, undef8>>

\* find_light_intensity, lines 89-110: one pixel of the scan
LightScan ==
    /\ pc = "scan"
    /\ sy < y2
    /\ top' = Place(top, top_num, img, gray, dark_channel, sx, sy)
    /\ seen' = seen \cup {<<cvGet2D(img, sy, sx)[dark_channel + 1],
                            cvGet2D(gray, sy, sx)>>}
    /\ IF sx + 1 < x2 THEN sx' = sx + 1 /\ sy' = sy
                      ELSE sx' = x1 /\ sy' = sy + 1
    /\ UNCHANGED <<img, gray, x1, y1, x2, y2, pc, top_num, dark_channel,
                   light_intensity, x, y, win, map, out, writes,
                   last, undef8>>

\* find_light_intensity, lines 112-128, and the assignment of line 240
LightReturn ==
    /\ pc = "scan"
    /\ sy >= y2
    /\ light_intensity' = RetVal(top, top_num)
    /\ pc' = "returned"
    /\ UNCHANGED <<img, gray, x1, y1, x2, y2, top_num, top, dark_channel,
                   sx, sy, seen, x, y, win, map, out, writes,
                   last, undef8>>

\* main, lines 243-244: the transmission map and the output image, empty
CreateImages ==
    /\ pc = "returned"
    /\ map' = [p \in Area(0, 0, img.w, img.h) |-> NotWritten]
    /\ out' = [p \in Area(0, 0, img.w, img.h) |->
                 [i \in 1 .. NumChannels |-> NotWritten]]
    /\ writes' = [p \in Area(0, 0, img.w, img.h) |-> <<0, 0>>]
    /\ pc' = "loop"
    /\ UNCHANGED <<img, gray, x1, y1, x2, y2, top_num, top, dark_channel,
                   sx, sy, seen, light_intensity, x, y, win, last, undef8>>

\* the scalar main computes for the output pixel at (px, py), lines 267-272
OutPixel(image, px, py, li, t) ==
    [i \in 1 .. NumChannels |-> Recover(cvGet2D(image, py, px)[i], li, t)]

\* main, lines 247-276: one pixel of the loop, whose rows start at column first
LoopPixelFrom(first) ==
    /\ pc = "loop"
    /\ y < img.h
    /\ LET x_low  == WinLow(x)
           y_low  == WinLow(y)
           x_high == WinHigh(x, img.w)
           y_high == WinHigh(y, img.h)
       IN  \E dc \in {find_dark_channel(img, x_low, y_low, x_high, y_high)} :
             \E t \in {Transmission(cvGet2D(img, y, x)[dc + 1], light_intensity)} :
               /\ win' = [px |-> x, py |-> y, x_low |-> x_low, y_low |-> y_low,
                          x_high |-> x_high, y_high |-> y_high]
               /\ \E t_255 \in {MapValue(t)} :
                    \E out_pixel \in {OutPixel(img, x, y, light_intensity, t)} :
                      \E ub \in Builds(t, undef8) :
                        /\ last' = [t |-> t, d |-> FMaxTMin(t), map |-> t_255,
                                 out |-> out_pixel]
                        /\ undef8' = ub
                        /\ map' = [map EXCEPT ![<<x, y>>] = Store8U(t_255, ub)]
                        /\ out' = [out EXCEPT ![<<x, y>>] =
                              [i \in 1 .. NumChannels |->
                                 Store8U(out_pixel[i], ub)]]
               /\ writes' = [writes EXCEPT ![<<x, y>>] = <<@[1] + 1, @[2] + 1>>]
    /\ IF x + 1 < img.w THEN x' = x + 1 /\ y' = y
                        ELSE x' = first /\ y' = y + 1
    /\ UNCHANGED <<img, gray, x1, y1, x2, y2, pc, top_num, top, dark_channel,
                   sx, sy, seen, light_intensity>>

\* LoopPixel with the rows after the first starting at column 1
LoopPixelSkip == LoopPixelFrom(1)

\* main, lines 247-276: for (int x = 0; ...)
LoopPixel == LoopPixelFrom(0)

\* main, line 247: the loop is over
LoopExit ==
    /\ pc = "loop"
    /\ y >= img.h
    /\ pc' = "done"
    /\ UNCHANGED <<img, gray, x1, y1, x2, y2, top_num, top, dark_channel,
                   sx, sy, seen, light_intensity, x, y, win, map, out, writes,
                   last, undef8>>

---------------------------------------------------------------------------
(* Specifications *)

\* main, from the image read to the end of the loop
Next ==
    LightEnter \/ LightScan \/ LightReturn \/ CreateImages \/ LoopPixel \/ LoopExit

Spec == Init /\ [][Next]_vars

\* main is one thread, and nothing stops it between two steps
FairSpec == InitFair /\ [][Next]_vars /\ WF_vars(Next)

\* find_dark_channel alone
NextDark == FindDarkChannel

SpecDark == InitDark /\ [][NextDark]_vars

\* find_light_intensity alone
NextLight == LightEnter \/ LightScan \/ LightReturn

SpecLight == InitLight /\ [][NextLight]_vars

---------------------------------------------------------------------------
(* What the claims speak of *)

\* the smallest of the channel values of a pixel
MinOf(pixel) ==
    CHOOSE v \in {pixel[i] : i \in 1 .. NumChannels} :
        \A i \in 1 .. NumChannels : v <= pixel[i]

\* the lowest channel index (0 = BLUE, 1 = GREEN, 2 = RED) that holds it
LowestMinIndex(pixel) ==
    CHOOSE i \in 0 .. NumChannels - 1 :
        /\ pixel[i + 1] = MinOf(pixel)
        /\ \A j \in 0 .. i - 1 : pixel[j + 1] # MinOf(pixel)

\* the pixel of img at position p = <<column, row>>
PixelAt(p) == cvGet2D(img, p[2], p[1])

\* the area the function was called on
TheArea == Area(x1, y1, x2, y2)

\* the smallest channel value anywhere in the area
AreaMin ==
    CHOOSE v \in {MinOf(PixelAt(p)) : p \in TheArea} :
        \A q \in TheArea : v <= MinOf(PixelAt(q))

\* the positions of the area whose pixel attains it
Darkest == {p \in TheArea : MinOf(PixelAt(p)) = AreaMin}

\* p comes before q in the row-major scan (y outer, x inner)
RowMajorBefore(p, q) == p[2] < q[2] \/ (p[2] = q[2] /\ p[1] < q[1])

\* the position of S the row-major scan meets first
RowMajorFirst(S) == CHOOSE p \in S : \A q \in S \ {p} : RowMajorBefore(p, q)

---------------------------------------------------------------------------
(* Claims about find_dark_channel, under SpecDark *)

\* C1: the index find_dark_channel returns is 0, 1 or 2, and some pixel of the
\* area holds on that index its own smallest channel value, which is no larger
\* than the smallest channel value of any pixel of the area.
C1_Minimality ==
    pc = "dark_done" =>
        /\ dark_channel \in 0 .. 2
        /\ \E p \in TheArea :
              /\ PixelAt(p)[dark_channel + 1] = MinOf(PixelAt(p))
              /\ \A q \in TheArea :
                    PixelAt(p)[dark_channel + 1] <= MinOf(PixelAt(q))

\* C1 witness: the call has returned GREEN for an area of four pixels or more
\* whose first pixel is not a darkest one, met later in a later row.
C1_Witness ==
    /\ pc = "dark_done"
    /\ dark_channel = 1
    /\ Cardinality(TheArea) >= 4
    /\ MinOf(PixelAt(<<x1, y1>>)) > AreaMin
    /\ RowMajorFirst(Darkest)[2] > y1

\* C7: the index returned is the lowest index holding the minimum of the pixel
\* the row-major scan meets first among those attaining the smallest channel
\* value of the area; an area of pixels with three equal channels gives 0.
C7_TieBreak ==
    pc = "dark_done" =>
        /\ dark_channel = LowestMinIndex(PixelAt(RowMajorFirst(Darkest)))
        /\ (\A p \in TheArea : PixelAt(p)[1] = PixelAt(p)[2]
                               /\ PixelAt(p)[2] = PixelAt(p)[3])
              => dark_channel = 0

\* C7 witness: two darkest pixels with different minimum indices, the one the
\* scan meets first lying right of the other (a column-major scan would meet
\* the other first), and the pixel met first has its minimum on two channels.
C7_Witness ==
    /\ pc = "dark_done"
    /\ \E p, q \in Darkest :
          /\ p = RowMajorFirst(Darkest)
          /\ q[1] < p[1]
          /\ LowestMinIndex(PixelAt(p)) # LowestMinIndex(PixelAt(q))
          /\ PixelAt(p)[2] = PixelAt(p)[3]
          /\ dark_channel = 1

---------------------------------------------------------------------------
(* Claims about find_light_intensity, under SpecLight *)

\* the dark-channel value (on the dark channel of the area) and the grayscale
\* intensity of the pixel at p
PairAt(p) == <<PixelAt(p)[dark_channel + 1], cvGet2D(gray, p[2], p[1])>>

\* a ranks below b: by dark-channel value, then by intensity
LexLess(a, b) == a[1] < b[1] \/ (a[1] = b[1] /\ a[2] < b[2])

\* the pair of S that ranks highest
LexMax(S) == CHOOSE a \in S : \A b \in S : ~LexLess(a, b)

\* the largest number of S
MaxOf(S) == CHOOSE a \in S : \A b \in S : b <= a

\* the pairs of the pixels of the area
AreaPairs == {PairAt(p) : p \in TheArea}

\* the exact reference: the largest intensity among the k pixels of the area
\* that rank highest, that is, those outranked by fewer than k pixels
TopKReference(k) ==
    MaxOf({d[2] : d \in {e \in AreaPairs :
                Cardinality({p \in TheArea : LexLess(e, PairAt(p))}) < k}})

\* the pixel at p exceeds every other pixel of the area both in dark-channel
\* value and in intensity
UniquelyBrightest(p) ==
    \A q \in TheArea :
        q # p => PairAt(q)[1] < PairAt(p)[1] /\ PairAt(q)[2] < PairAt(p)[2]

\* slot i (from 1) of the candidate array as a pair, and whether it is unset
SlotPair(i) == <<top[i].val, top[i].intensity>>
Unset(i) == top[i].val = -1 /\ top[i].intensity = -1

\* C2: with one candidate or more, a pixel that exceeds every other pixel of
\* the area in dark-channel value and in intensity gives the result: the
\* function returns its intensity, wherever it lies in the scan.
C2_UniqueBrightest ==
    (pc = "returned" /\ top_num >= 1) =>
        \A p \in TheArea : UniquelyBrightest(p) => light_intensity = PairAt(p)[2]

\* C2 witness: the function has returned with two candidates on an area of
\* three different pixels whose uniquely brightest one is not the first.
C2_Witness ==
    /\ pc = "returned"
    /\ top_num = 2
    /\ Cardinality(AreaPairs) >= 3
    /\ \E p \in TheArea : UniquelyBrightest(p) /\ p # <<x1, y1>>
                          /\ light_intensity = PairAt(p)[2]

C10_FirstFitArray ==
    /\ pc \in {"scan", "returned"} =>
          /\ \A i \in 1 .. top_num - 1 : ~LexLess(SlotPair(i), SlotPair(i + 1))
          /\ \A i \in 1 .. top_num - 1 : Unset(i) => Unset(i + 1)
          /\ (top_num >= 1 /\ seen # {}) => SlotPair(1) = LexMax(seen)
    /\ (pc = "returned" /\ top_num = 1) =>
          light_intensity = LexMax(AreaPairs)[2]

\* C10 witness: in the middle of a scan with two candidates, both slots set to
\* different pairs after three different pixels were scanned.
C10_Witness ==
    /\ pc = "scan"
    /\ sy < y2
    /\ top_num = 2
    /\ Cardinality(seen) >= 3
    /\ ~Unset(2)
    /\ SlotPair(1) # SlotPair(2)

---------------------------------------------------------------------------
(* Claims about main, under Spec and FairSpec *)

Max2(a, b) == IF a >= b THEN a ELSE b
Min2(a, b) == IF a <= b THEN a ELSE b

\* the whole image
WholeImage == Area(0, 0, img.w, img.h)

\* the position of the pixel the loop processed last
LastPixel == <<win.px, win.py>>

\* C4, as claimed: when the candidate array is empty or the light intensity is
\* not positive, main stops before it processes a pixel: no window, no
\* transmission estimate and no division by the light intensity.
C4_ConfigErrorsFatal ==
    (pc \in {"returned", "loop", "done"}
         /\ (top_num = 0 \/ light_intensity <= 0))
      => win = NoWindow

\* C5: the window of every pixel (x, y) is [max(0, x-10), min(width, x+10)) x
\* [max(0, y-10), min(height, y+10)), lies in the image, is not empty and holds
\* (x, y); for (0, 0) of an image of 10 x 10 or more it is [0, 10) x [0, 10).
C5_WindowClamped ==
    win.px >= 0 =>
        /\ win.x_low = Max2(0, win.px - 10)
        /\ win.x_high = Min2(img.w, win.px + 10)
        /\ win.y_low = Max2(0, win.py - 10)
        /\ win.y_high = Min2(img.h, win.py + 10)
        /\ 0 <= win.x_low /\ win.x_low < win.x_high /\ win.x_high <= img.w
        /\ 0 <= win.y_low /\ win.y_low < win.y_high /\ win.y_high <= img.h
        /\ win.x_low <= win.px /\ win.px < win.x_high
        /\ win.y_low <= win.py /\ win.py < win.y_high
        /\ (win.px = 0 /\ win.py = 0 /\ img.w >= 10 /\ img.h >= 10) =>
              /\ win.x_low = 0 /\ win.x_high = 10
              /\ win.y_low = 0 /\ win.y_high = 10

\* C5 witness: a pixel whose window is clamped on no side.
C5_Witness ==
    /\ win.px >= 0
    /\ win.x_low > 0 /\ win.x_high < img.w
    /\ win.y_low > 0 /\ win.y_high < img.h
    /\ win.x_high - win.x_low = 20 /\ win.y_high - win.y_low = 20

\* a uniform gray below 255 with one white square of 3 x 3 pixels
GrayWithWhitePatch ==
    /\ img.bg[1] = img.bg[2] /\ img.bg[2] = img.bg[3] /\ img.bg[1] < 255
    /\ \E p \in WholeImage :
          /\ p[1] + 3 <= img.w /\ p[2] + 3 <= img.h
          /\ DOMAIN img.marks = Area(p[1], p[2], p[1] + 3, p[2] + 3)
    /\ \A q \in DOMAIN img.marks : img.marks[q] = <<255, 255, 255>>

\* the locations of the output image stored to so far
Stored == {p \in DOMAIN writes : writes[p][2] >= 1}

\* C6, as claimed: on a uniform gray image with a white 3 x 3 patch and light
\* intensity 255 the output image holds the input value, to within one gray
\* level of rounding, at every pixel and channel main has stored (all of them
\* once it is done).
C6_NearIdentity ==
    (pc \in {"loop", "done"} /\ GrayWithWhitePatch /\ light_intensity = 255) =>
        \A p \in Stored : \A c \in 1 .. 3 : Abs(out[p][c] - PixelAt(p)[c]) <= 1

\* C6, amended: with light intensity 255 and a white 3 x 3 patch, on a black
\* image (gray level 0) the recovered value is exactly the input value, and so
\* is the pixel of the output image, at every pixel and channel main has
\* stored (all of them once it is done); on an image of a gray level from 1 to
\* 117 the patch is stored as 255, its input, but the background is recovered
\* to a double within 2^-40 of 0 and stored as 0 (stated of the pixel stored
\* last, which every pixel is once).
C6_IdentityOnBlack ==
    /\ (pc \in {"loop", "done"} /\ GrayWithWhitePatch /\ img.bg[1] = 0
          /\ light_intensity = 255)
        => /\ \A p \in Stored : \A c \in 1 .. 3 : out[p][c] = PixelAt(p)[c]
           /\ win.px >= 0 =>
                \A c \in 1 .. 3 : last.out[c] = IntToDouble[PixelAt(LastPixel)[c]]
    /\ (pc \in {"loop", "done"} /\ GrayWithWhitePatch /\ img.bg[1] >= 1
          /\ img.bg[1] <= 117 /\ light_intensity = 255)
        => /\ win.px >= 0 =>
                \A c \in 1 .. 3 :
                    out[LastPixel][c]
                      = IF LastPixel \in DOMAIN img.marks THEN 255 ELSE 0
           /\ (win.px >= 0 /\ LastPixel \notin DOMAIN img.marks) =>
                \A c \in 1 .. 3 :
                    /\ last.out[c].k = "fin"
                    /\ \/ last.out[c].m = <<>>
                       \/ BitLen[last.out[c].m] + last.out[c].e <= -40

\* C6 witness: on such a black image main has stored a pixel of the patch,
\* white, and the black pixel before it, black.
C6_Witness ==
    /\ pc = "loop"
    /\ GrayWithWhitePatch
    /\ img.bg[1] = 0
    /\ light_intensity = 255
    /\ \E p \in DOMAIN img.marks :
          /\ p = LastPixel
          /\ last.out = [c \in 1 .. 3 |-> IntToDouble[255]]
          /\ out[p] = <<255, 255, 255>>
          /\ p[1] >= 1
          /\ <<p[1] - 1, p[2]>> \in Stored \ DOMAIN img.marks
          /\ out[<<p[1] - 1, p[2]>>] = <<0, 0, 0>>

\* C8: nothing is stored in the transmission map or the output image before
\* the light intensity is computed; main reaches the end of its loop; at the
\* end every location of both images has been stored to exactly once; the
\* source and grayscale images never change.
C8_OrderAndWriteOnce ==
    /\ [][(map' # map \/ out' # out \/ writes' # writes) =>
             /\ pc \in {"returned", "loop"}
             /\ sy >= y2
             /\ light_intensity = RetVal(top, top_num)]_vars
    /\ <>(pc = "done")
    /\ [](pc = "done" => \A p \in WholeImage : writes[p] = <<1, 1>>)
    /\ [][img' = img /\ gray' = gray]_vars

\* C8 witness: main is done with an image of three rows or more, wider than a
\* window, and every location was stored to once.
C8_Witness ==
    /\ pc = "done"
    /\ img.w > MAP_WIDTH /\ img.h >= 3
    /\ \A p \in WholeImage : writes[p] = <<1, 1>> /\ map[p] # NotWritten

\* out - A, exactly, for the recovered double out and the light intensity A
Excess(o, A) == ExactSum[o, Neg(IntToDouble[A])]

\* 0.54 |D| <= n + k / 2^40 for the exact D = s * m * 2^e, e <= 0, and the
\* integers n, k >= 0
WithinFloor(D, n, k) ==
    BigCmp[BigShl[BigMulSmall[D.m, TMinNum], 40],
           BigAdd[BigShl[BigOfInt[TMinDen * n], 40 - D.e],
                  BigShl[BigOfInt[TMinDen * k], -D.e]]] <= 0

\* the divisor the claim names for the estimate t: t when t >= 0.54, and 0.54
\* when t < 0.54
ClaimedDivisor(t, d) ==
    /\ (t.k = "fin" /\ ~DLess[t, TMin]) => d = t
    /\ DLess[t, TMin] => d = TMin
    /\ ~DLess[d, TMin]

\* C9, as claimed: for the pixel just processed, every channel value I, the
\* light intensity A, the estimate t and the recovered double out: the
\* divisor is t when t >= 0.54 and 0.54 when t < 0.54 (t negative or minus
\* infinity too), out - A has the sign of I - A, and 0.54 |out - A| <= |I - A|.
C9_FloorBoundsAmplification ==
    win.px >= 0 =>
        /\ ClaimedDivisor(last.t, last.d)
        /\ \A c \in 1 .. 3 :
              LET I == PixelAt(LastPixel)[c]
                  D == Excess(last.out[c], light_intensity)
              IN  /\ last.out[c].k = "fin"
                  /\ (D.m # <<>> /\ D.s = 1) = (I - light_intensity > 0)
                  /\ (D.m # <<>> /\ D.s = -1) = (I - light_intensity < 0)
                  /\ WithinFloor(D, Abs(I - light_intensity), 0)

\* C9, amended: the same, the bound holding up to the rounding of the double
\* operations of line 271: 0.54 |out - A| <= |I - A| + 2^-40.
C9_FloorUpToRounding ==
    win.px >= 0 =>
        /\ ClaimedDivisor(last.t, last.d)
        /\ \A c \in 1 .. 3 :
              LET I == PixelAt(LastPixel)[c]
                  D == Excess(last.out[c], light_intensity)
              IN  /\ last.out[c].k = "fin"
                  /\ (D.m # <<>> /\ D.s = 1) = (I - light_intensity > 0)
                  /\ (D.m # <<>> /\ D.s = -1) = (I - light_intensity < 0)
                  /\ WithinFloor(D, Abs(I - light_intensity), 1)

\* C9 witness: a pixel with a transmission estimate below 0.54 whose channel 0
\* differs from the light intensity, recovered with the floor 0.54 as divisor
\* to a double that rounding has put beyond the exact bound.
C9_Witness ==
    /\ win.px >= 0
    /\ last.t.k = "fin" /\ DLess[last.t, TMin]
    /\ last.d = TMin
    /\ light_intensity > 0
    /\ PixelAt(LastPixel)[1] # light_intensity
    /\ ~WithinFloor(Excess(last.out[1], light_intensity),
                    Abs(PixelAt(LastPixel)[1] - light_intensity), 0)
    /\ WithinFloor(Excess(last.out[1], light_intensity),
                   Abs(PixelAt(LastPixel)[1] - light_intensity), 1)

===========================================================================
